---- MODULE Spec2Model ----
(***************************************************************************)
(* Model of the SkySkills fishing core: the Hypixel API client             *)
(* (fishing/hypixel_api.py) with its retry decorator, error classification *)
(* and connection pool, the XP -> level resolver and the profile           *)
(* extractor.                                                              *)
(***************************************************************************)
EXTENDS Integers, Sequences, FiniteSets, TLC

VARIABLES
    api_key,      \* HypixelAPIClient.api_key
    client,       \* state of HypixelAPIClient.client (the httpx connection pool)
    callerPc,     \* position of the code that owns the client
    expect,       \* what the owning code expects of the operation
    op,           \* the client operation in progress
    pc,           \* position inside the operation
    requests,     \* outbound requests sent so far by the operation
    outcomes,     \* what each attempt got back from the transport
    getResult,    \* how the decorated _get call ended
    result,       \* how the client operation ended
    waits,        \* the sleeps the retry decorator made between the attempts
    tenacity,     \* which wait_exponential the installed tenacity provides
    cancelled,    \* the owning code has cancelled the task awaiting the operation
    xpA, xpB,     \* inputs of the level resolver
    levelA, levelB, \* outputs of the level resolver
    lpc,          \* position of the level-resolver run
    profile,      \* raw profile handed to extract_fishing_stats
    stats,        \* what extract_fishing_stats produced
    epc,          \* position of the extractor run
    store,        \* raw profiles held by code that extracts repeatedly
    original,     \* the same profiles as they were handed over
    log,          \* the extractions made so far: which profile, what came back
    args,         \* arguments of the calculator being run
    out,          \* what the calculator returned
    cpc           \* position of the calculator run

clientVars == <<api_key, client, callerPc, expect, op, pc, requests, outcomes, getResult, result,
                waits, tenacity, cancelled>>
levelVars == <<xpA, xpB, levelA, levelB, lpc>>
extractVars == <<profile, stats, epc>>
repeatVars == <<store, original, log>>
calcVars == <<args, out, cpc>>
vars == <<clientVars, levelVars, extractVars, repeatVars, calcVars>>

----------------------------------------------------------------------------
(* Bounds of the model *)

\* number of distinguishable response payloads
MaxTag == 2
\* number of extractions made in a row on the same client
MaxCalls == 3
\* largest single stat contribution of a gear source
MaxContrib == 1
\* largest whole count stored under one trophy-fish or bestiary key
MaxCount == 2
\* half-width of the window of xp values sampled around every breakpoint
Spread == 1

----------------------------------------------------------------------------
(* Program constants *)

TIMEOUT == 10
MaxAttempts == 3

NoKey == "<None>"
EmptyKey == ""
ApiKeys == {NoKey, EmptyKey, "test-key"}

HypixelHost == "api.hypixel.net"
MojangHost == "api.mojang.com"

RetryingOps == {"get_skyblock_profiles", "get_player_data"}
Ops == RetryingOps \cup {"get_uuid_from_ign"}

Statuses == {200, 400, 403, 404, 429, 500, 503}

StatusStr(s) ==
    CASE s = 200 -> "200" [] s = 400 -> "400" [] s = 403 -> "403"
      [] s = 404 -> "404" [] s = 429 -> "429" [] s = 500 -> "500"
      [] s = 503 -> "503" [] OTHER -> "?"

----------------------------------------------------------------------------
(* Responses of the transport *)

HypixelBodies ==
    [success : {"true", "false", "missing"},
     cause : {"missing", "Invalid API key"},
     profiles : {"missing", "null", "empty", "nonempty"},
     id : {"missing"},
     tag : 1..MaxTag]

MojangBodies ==
    [success : {"missing"}, cause : {"missing"}, profiles : {"missing"},
     id : {"missing", "present"}, tag : 1..MaxTag]

TransientOutcomes == {[t |-> "timeout"], [t |-> "network"]}

ResponsesOf(bodies) == [t : {"response"}, status : Statuses, body : bodies]

OutcomesOf(o) ==
    TransientOutcomes
    \cup (IF o = "get_uuid_from_ign" THEN ResponsesOf(MojangBodies)
                                     ELSE ResponsesOf(HypixelBodies))

IsTransient(o) == o.t \in {"timeout", "network"}

----------------------------------------------------------------------------
(* Exceptions and results *)

Exc(type, msg, detail) == [type |-> type, msg |-> msg, detail |-> detail]
Raise(e) == [t |-> "raise", exc |-> e]
Return(d) == [t |-> "return", data |-> d]
None == [t |-> "none"]

\* httpx.TimeoutException / httpx.NetworkError raised by client.get
TransportExc(o) ==
    IF o.t = "timeout" THEN Exc("TimeoutException", "", "")
                       ELSE Exc("NetworkError", "", "")

RetriedTypes == {"TimeoutException", "NetworkError"}

Truthy(key) == key # NoKey /\ key # EmptyKey

----------------------------------------------------------------------------
(* HypixelAPIClient._get: one attempt, and the retry decorator around it *)

\* the key is never added to the params
BuildParams_NoKey(key) == NoKey

\* params as sent: the key is added only when api_key is truthy
BuildParams(key) == IF Truthy(key) THEN key ELSE NoKey

HypixelRequest(endpoint, key) ==
    [host |-> HypixelHost, endpoint |-> endpoint, key |-> BuildParams(key),
     timeout |-> TIMEOUT]

\* get_uuid_from_ign calls client.get(url) without params
MojangRequest ==
    [host |-> MojangHost, endpoint |-> "/users/profiles/minecraft", key |-> NoKey,
     timeout |-> TIMEOUT]

Endpoint(o) == IF o = "get_skyblock_profiles" THEN "/skyblock/profiles" ELSE "/player"

\* _get without its 429 branch: a 429 falls through to raise_for_status
_get_No429Branch(o) ==
    IF IsTransient(o) THEN Raise(TransportExc(o))
    ELSE IF o.status = 404 THEN Raise(Exc("PlayerNotFoundError", "Player not found", ""))
    ELSE IF o.status >= 500
        THEN Raise(Exc("HypixelAPIError", "Server error: ", StatusStr(o.status)))
    ELSE IF o.status >= 400
        THEN Raise(Exc("HypixelAPIError", "HTTP error: ", StatusStr(o.status)))
    ELSE IF o.body.success # "true"
        THEN Raise(Exc("HypixelAPIError", "API returned success=false: ",
                       IF o.body.cause = "missing" THEN "Unknown error" ELSE o.body.cause))
    ELSE Return(o.body)

\* the body of _get for one attempt
_get(o) ==
    IF IsTransient(o) THEN Raise(TransportExc(o))
    ELSE IF o.status = 404 THEN Raise(Exc("PlayerNotFoundError", "Player not found", ""))
    ELSE IF o.status = 429 THEN Raise(Exc("RateLimitError", "API rate limit exceeded", ""))
    ELSE IF o.status >= 500
        THEN Raise(Exc("HypixelAPIError", "Server error: ", StatusStr(o.status)))
    ELSE IF o.status >= 400
        THEN Raise(Exc("HypixelAPIError", "HTTP error: ", StatusStr(o.status)))
    ELSE IF o.body.success # "true"
        THEN Raise(Exc("HypixelAPIError", "API returned success=false: ",
                       IF o.body.cause = "missing" THEN "Unknown error" ELSE o.body.cause))
    ELSE Return(o.body)

\* stop_after_attempt(4)
ShouldRetry_FourAttempts(attempt, res) ==
    /\ res.t = "raise"
    /\ res.exc.type \in RetriedTypes
    /\ attempt < MaxAttempts + 1

\* a retry predicate that retries on every exception
ShouldRetry_AnyError(attempt, res) ==
    /\ res.t = "raise"
    /\ attempt < MaxAttempts

\* a retry predicate that retries everything but the errors of the API
ShouldRetry_ExceptApiErrors(attempt, res) ==
    /\ res.t = "raise"
    /\ res.exc.type \notin {"HypixelAPIError", "PlayerNotFoundError", "RateLimitError"}
    /\ attempt < MaxAttempts

\* retry=retry_if_exception_type(...), stop=stop_after_attempt(3)
ShouldRetry(attempt, res) ==
    /\ res.t = "raise"
    /\ res.exc.type \in RetriedTypes
    /\ attempt < MaxAttempts

\* The retry decorator comes from the installed tenacity package. Its
\* wait_exponential raises exp_base to attempt_number - 1 in the current
\* releases and to attempt_number in the earlier ones.
TenacityBuilds == {"current", "earlier"}

WaitMultiplier == 1
WaitMin == 2
WaitMax == 10

Larger(a, b) == IF a >= b THEN a ELSE b

Smaller(a, b) == IF a <= b THEN a ELSE b

\* wait_exponential without the lower clamp min=2
wait_exponential_NoMin(build, attempt_number) ==
    LET exp == 2 ^ (IF build = "current" THEN attempt_number - 1 ELSE attempt_number)
    IN  Larger(0, Smaller(WaitMultiplier * exp, WaitMax))

\* wait=wait_exponential(multiplier=1, min=2, max=10): the sleep after the
\* attempt numbered attempt_number has failed
wait_exponential(build, attempt_number) ==
    LET exp == 2 ^ (IF build = "current" THEN attempt_number - 1 ELSE attempt_number)
    IN  Larger(Larger(0, WaitMin), Smaller(WaitMultiplier * exp, WaitMax))

\* the profile check written as "is None": an empty list passes
AfterGet_NoneOnly(o, res) ==
    IF res.t = "raise" THEN res
    ELSE IF o = "get_skyblock_profiles" /\ res.data.profiles \in {"missing", "null"}
        THEN Raise(Exc("PlayerNotFoundError", "Player has no Skyblock profiles", ""))
    ELSE res

\* get_skyblock_profiles / get_player_data after _get has ended
AfterGet(o, res) ==
    IF res.t = "raise" THEN res
    ELSE IF o = "get_skyblock_profiles" /\ res.data.profiles # "nonempty"
        THEN Raise(Exc("PlayerNotFoundError", "Player has no Skyblock profiles", ""))
    ELSE res

\* the body of get_uuid_from_ign once client.get has ended
get_uuid_from_ign(o) ==
    IF IsTransient(o) THEN Raise(TransportExc(o))
    ELSE IF o.status = 404 THEN Raise(Exc("PlayerNotFoundError", "IGN not found", ""))
    ELSE IF o.status >= 400
        THEN Raise(Exc("HypixelAPIError", "Mojang API error: ", StatusStr(o.status)))
    ELSE IF o.body.id = "missing" THEN Raise(Exc("KeyError", "id", ""))
    ELSE Return(o.body)

----------------------------------------------------------------------------
(* The client and the code that owns it *)

Expectations == {"return", "PlayerNotFoundError", "RateLimitError"}

\* the owning code calls one operation on the client it constructed
Call(o, e) ==
    /\ callerPc = "constructed"
    /\ op' = o
    /\ expect' = e
    /\ callerPc' = "awaiting"
    /\ pc' = "sending"
    /\ UNCHANGED <<api_key, client, requests, outcomes, getResult, result, waits, tenacity, cancelled>>

\* client.get is entered: the request leaves
Send ==
    /\ pc = "sending"
    /\ requests' = Append(requests,
                          IF op \in RetryingOps THEN HypixelRequest(Endpoint(op), api_key)
                                                ELSE MojangRequest)
    /\ pc' = "inflight"
    /\ UNCHANGED <<api_key, client, callerPc, expect, op, outcomes, getResult, result, waits, tenacity, cancelled>>

\* client.get of a _get attempt ends; the attempt and the retry decision run
ReceiveGet(o) ==
    /\ pc = "inflight"
    /\ op \in RetryingOps
    /\ o \in OutcomesOf(op)
    /\ outcomes' = Append(outcomes, o)
    /\ IF ShouldRetry(Len(requests), _get(o))
          THEN /\ pc' = "backoff"
               /\ waits' = Append(waits, wait_exponential(tenacity, Len(requests)))
               /\ UNCHANGED <<getResult, result, callerPc>>
          ELSE /\ pc' = "done"
               /\ getResult' = _get(o)
               /\ result' = AfterGet(op, _get(o))
               /\ callerPc' = "resumed"
               /\ UNCHANGED waits
    /\ UNCHANGED <<api_key, client, expect, op, requests, tenacity, cancelled>>

\* the backoff sleep between two attempts ends
Sleep ==
    /\ pc = "backoff"
    /\ pc' = "sending"
    /\ UNCHANGED <<api_key, client, callerPc, expect, op, requests, outcomes, getResult, result, waits, tenacity, cancelled>>

\* client.get of get_uuid_from_ign ends
ReceiveMojang(o) ==
    /\ pc = "inflight"
    /\ op = "get_uuid_from_ign"
    /\ o \in OutcomesOf(op)
    /\ outcomes' = Append(outcomes, o)
    /\ pc' = "done"
    /\ result' = get_uuid_from_ign(o)
    /\ callerPc' = "resumed"
    /\ UNCHANGED <<api_key, client, expect, op, requests, getResult, waits, tenacity, cancelled>>

\* asyncio.CancelledError thrown into the task at the await it is suspended
\* on; no except clause of _get or get_uuid_from_ign catches it
CancelledError == Raise(Exc("CancelledError", "", ""))

\* The owning code cancels the task while it awaits client.get. The attempt
\* ends with CancelledError; for _get the retry decorator then decides.
CancelAttempt ==
    /\ callerPc = "awaiting"
    /\ pc = "inflight"
    /\ ~cancelled
    /\ cancelled' = TRUE
    /\ outcomes' = Append(outcomes, [t |-> "cancelled"])
    /\ IF op \in RetryingOps /\ ShouldRetry(Len(requests), CancelledError)
          THEN /\ pc' = "backoff"
               /\ waits' = Append(waits, wait_exponential(tenacity, Len(requests)))
               /\ UNCHANGED <<getResult, result, callerPc>>
          ELSE /\ pc' = "done"
               /\ getResult' = IF op \in RetryingOps THEN CancelledError ELSE getResult
               /\ result' = CancelledError
               /\ callerPc' = "resumed"
               /\ UNCHANGED waits
    /\ UNCHANGED <<api_key, client, expect, op, requests, tenacity>>

\* The owning code cancels the task while the decorator sleeps between two
\* attempts. The sleep is outside the attempt: CancelledError leaves _get.
CancelSleep ==
    /\ callerPc = "awaiting"
    /\ pc = "backoff"
    /\ ~cancelled
    /\ cancelled' = TRUE
    /\ pc' = "done"
    /\ getResult' = CancelledError
    /\ result' = CancelledError
    /\ callerPc' = "resumed"
    /\ UNCHANGED <<api_key, client, expect, op, requests, outcomes, waits, tenacity>>

\* the operation ended the way the owning code expects
AsExpected ==
    \/ expect = "return" /\ result.t = "return"
    \/ expect # "return" /\ result.t = "raise" /\ result.exc.type = expect

\* await client.close(), reached when nothing propagated past the owning code
Close ==
    /\ callerPc = "resumed"
    /\ AsExpected
    /\ client' = "closed"
    /\ callerPc' = "ended"
    /\ UNCHANGED <<api_key, expect, op, pc, requests, outcomes, getResult, result, waits, tenacity, cancelled>>

\* an exception leaves the owning code before close() is reached
Propagate ==
    /\ callerPc = "resumed"
    /\ ~AsExpected
    /\ callerPc' = "ended"
    /\ UNCHANGED <<api_key, client, expect, op, pc, requests, outcomes, getResult, result, waits, tenacity, cancelled>>

\* HypixelAPIClient.__init__ has run
InitClient ==
    /\ api_key \in ApiKeys
    /\ client = "open"
    /\ callerPc = "constructed"
    /\ expect = "return"
    /\ op = "none"
    /\ pc = "idle"
    /\ requests = <<>>
    /\ outcomes = <<>>
    /\ getResult = None
    /\ result = None
    /\ waits = <<>>
    /\ tenacity \in TenacityBuilds
    /\ cancelled = FALSE

----------------------------------------------------------------------------
(* HypixelAPIClient._xp_to_level *)

\* int(x / d) of Python: the quotient truncated toward zero
TruncDiv(x, d) == IF x >= 0 THEN x \div d ELSE -((-x) \div d)

\* the approximation branch dividing by 4000 instead of 5000
_xp_to_level_Coarse(xp) ==
    IF xp >= 55172425 THEN 50
    ELSE IF xp >= 27652625 THEN 45
    ELSE IF xp >= 13512625 THEN 40
    ELSE IF xp >= 6452625 THEN 35
    ELSE IF xp >= 2982625 THEN 30
    ELSE IF xp >= 1332625 THEN 25
    ELSE IF xp >= 572625 THEN 20
    ELSE IF xp >= 232625 THEN 15
    ELSE IF xp >= 87625 THEN 10
    ELSE IF xp >= 27625 THEN 5
    ELSE TruncDiv(xp, 4000)

_xp_to_level(xp) ==
    IF xp >= 55172425 THEN 50
    ELSE IF xp >= 27652625 THEN 45
    ELSE IF xp >= 13512625 THEN 40
    ELSE IF xp >= 6452625 THEN 35
    ELSE IF xp >= 2982625 THEN 30
    ELSE IF xp >= 1332625 THEN 25
    ELSE IF xp >= 572625 THEN 20
    ELSE IF xp >= 232625 THEN 15
    ELSE IF xp >= 87625 THEN 10
    ELSE IF xp >= 27625 THEN 5
    ELSE TruncDiv(xp, 5000)

TopThreshold == 55172425

\* the xp values at which the resolver can change its answer
Breakpoints ==
    {55172425, 27652625, 13512625, 6452625, 2982625, 1332625, 572625, 232625,
     87625, 27625}
    \cup {k * 5000 : k \in -2..6}
    \cup {2000000000}

XpSamples == {b + d : b \in Breakpoints, d \in (-Spread)..Spread}

\* the resolver is applied to both inputs
ResolveLevels ==
    /\ lpc = "start"
    /\ levelA' = _xp_to_level(xpA)
    /\ levelB' = _xp_to_level(xpB)
    /\ lpc' = "resolved"
    /\ UNCHANGED <<xpA, xpB>>

InitLevel ==
    /\ xpA \in XpSamples
    /\ xpB \in XpSamples
    /\ levelA = None
    /\ levelB = None
    /\ lpc = "start"

IdleLevel ==
    /\ xpA = 0
    /\ xpB = 0
    /\ levelA = None
    /\ levelB = None
    /\ lpc = "off"

----------------------------------------------------------------------------
(* HypixelAPIClient.extract_fishing_stats *)

Absent == [t |-> "absent"]
Null == [t |-> "null"]
Str == [t |-> "str"]
Num(n) == [t |-> "num", v |-> n]
Dict(f) == [t |-> "dict", f |-> f]

XpValues == {0, 100, 999, -5000, 1332625}

\* what may sit at a SKILL_FISHING / experience_skill_fishing key
Leaves == {Absent, Null, Str} \cup {Num(n) : n \in XpValues}
\* what may sit at an 'experience' key
ExperienceValues == {Absent, Null} \cup {Dict(v) : v \in Leaves}
\* what may sit at the 'leveling' / 'player_data' key
SkillContainers == {Absent, Null, Str} \cup {Dict(e) : e \in ExperienceValues}

\* an empty dict / an empty list
EmptyMap == <<>>
EmptyList == [t |-> "list", items |-> <<>>]
\* an inventory blob, passed through undecoded
Blob == [t |-> "blob"]

\* characters of the bestiary keys: "sea_w", "Squid", "yeti"
KillKeys ==
    {<<"s", "e", "a", "_", "w">>, <<"S", "q", "u", "i", "d">>, <<"y", "e", "t", "i">>}

\* member['trophy_fish']
TrophyValues ==
    {Absent, Null, Dict(EmptyMap), Dict([k \in {"sulphur_skitter"} |-> 5])}

\* member['bestiary']['kills'] and member['bestiary']
KillsValues ==
    {Absent, Null} \cup {Dict([k \in S |-> 5]) : S \in SUBSET KillKeys}
BestiaryValues == {Absent, Null} \cup {Dict(k) : k \in KillsValues}

\* member['inventory'] with its equipment_contents and wardrobe_contents
ContentsValues == {Absent, Null, Dict(Absent), Dict(Blob)}
InventoryValues ==
    {Absent, Null}
    \cup {Dict(i) : i \in [equipment_contents : ContentsValues,
                           wardrobe_contents : ContentsValues]}

\* members that vary the three experience paths
XpMembers ==
    [leveling : SkillContainers, player_data : SkillContainers,
     experience_skill_fishing : Leaves,
     trophy_fish : {Absent}, bestiary : {Absent}, inventory : {Absent},
     last_save : {Absent}]

\* members that vary everything else
RestMembers ==
    [leveling : {Absent}, player_data : {Absent},
     experience_skill_fishing : {Absent, Num(100)},
     trophy_fish : TrophyValues, bestiary : BestiaryValues,
     inventory : InventoryValues,
     last_save : {Absent, Num(1697)}]

Members == XpMembers \cup RestMembers

EmptyMember ==
    [leveling |-> Absent, player_data |-> Absent, experience_skill_fishing |-> Absent,
     trophy_fish |-> Absent, bestiary |-> Absent, inventory |-> Absent,
     last_save |-> Absent]

Uuids == {<<"a", "b">>, <<"a", "-", "b">>}
MemberKeys == {<<"a", "b">>, <<"a", "-", "b">>}

Profiles ==
    {[members |-> m, key |-> <<>>, member |-> EmptyMember, uuid |-> u,
      profile_id |-> Absent, cute_name |-> Str] :
        m \in {"absent", "null"}, u \in Uuids}
    \cup [members : {"dict"}, key : MemberKeys, member : Members, uuid : Uuids,
          profile_id : {Absent, Str}, cute_name : {Str}]

\* uuid.replace('-', '')
Clean(u) == SelectSeq(u, LAMBDA c : c # "-")

\* Python truth value of a looked-up value
TruthyValue(v) == v.t = "str" \/ (v.t = "num" /\ v.v # 0)

\* dict.get(key, 0): the default stands in for a missing key only
GetOrZero(v) == IF v.t = "absent" THEN Num(0) ELSE v

\* one of the two nested lookups: <<"ok", value>>, <<"skip">> or <<"raise">>
\*   'k' in member and 'experience' in member['k']  ->  member['k']['experience'].get(...)
Nested(c) ==
    IF c.t = "absent" THEN <<"skip">>
    ELSE IF c.t = "null" THEN <<"raise", "TypeError">>
    ELSE IF c.t = "str" THEN <<"skip">>
    ELSE IF c.f.t = "absent" THEN <<"skip">>
    ELSE IF c.f.t = "null" THEN <<"raise", "AttributeError">>
    ELSE <<"ok", GetOrZero(c.f.f)>>

\* lines 197-209: the value of fishing_xp, or the exception raised on the way
ResolveXp(member) ==
    LET p1 == Nested(member.leveling)
        x1 == IF p1[1] = "ok" THEN p1[2] ELSE Num(0)
        p2 == Nested(member.player_data)
        x2 == IF TruthyValue(x1) THEN x1
              ELSE IF p2[1] = "ok" THEN p2[2] ELSE x1
        x3 == IF TruthyValue(x2) THEN x2
              ELSE GetOrZero(member.experience_skill_fishing)
    IN  IF p1[1] = "raise" THEN Raise(Exc(p1[2], "", ""))
        ELSE IF ~TruthyValue(x1) /\ p2[1] = "raise" THEN Raise(Exc(p2[2], "", ""))
        ELSE Return(x3)

\* profile.get('members', {}).get(uuid_clean, {})
MemberOf(p) ==
    IF p.members = "absent" THEN Return(EmptyMember)
    ELSE IF p.members = "null" THEN Raise(Exc("AttributeError", "", ""))
    ELSE IF p.key = Clean(p.uuid) THEN Return(p.member)
    ELSE Return(EmptyMember)

\* str.lower() on the characters in use
Lower(c) == IF c = "S" THEN "s" ELSE c
LowerKey(k) == [i \in 1..Len(k) |-> Lower(k[i])]

\* sub in s
Contains(sub, s) ==
    \E i \in 1..(Len(s) - Len(sub) + 1) : SubSeq(s, i, i + Len(sub) - 1) = sub

\* 'sea' in k.lower() or 'shark' in k.lower() or 'squid' in k.lower()
IsMarine(k) ==
    \/ Contains(<<"s", "e", "a">>, LowerKey(k))
    \/ Contains(<<"s", "h", "a", "r", "k">>, LowerKey(k))
    \/ Contains(<<"s", "q", "u", "i", "d">>, LowerKey(k))

\* member.get('bestiary', {}).get('kills', {}) and the comprehension over it
SeaCreatureKills(member) ==
    LET b == member.bestiary
        k == IF b.t = "absent" THEN Dict(EmptyMap)
             ELSE IF b.f.t = "absent" THEN Dict(EmptyMap) ELSE b.f
    IN  IF b.t = "null" THEN Raise(Exc("AttributeError", "", ""))
        ELSE IF k.t = "null" THEN Raise(Exc("AttributeError", "", ""))
        ELSE Return([c \in {c \in DOMAIN k.f : IsMarine(c)} |-> k.f[c]])

\* member.get('inventory', {}).get(slot, {}).get('data', [])
Contents(member, slot) ==
    LET i == member.inventory
        c == IF i.t = "absent" THEN Absent ELSE i.f[slot]
    IN  IF i.t = "null" THEN Raise(Exc("AttributeError", "", ""))
        ELSE IF c.t = "null" THEN Raise(Exc("AttributeError", "", ""))
        ELSE IF c.t = "absent" THEN Return(EmptyList)
        ELSE IF c.f.t = "absent" THEN Return(EmptyList)
        ELSE Return(c.f)

\* dict.get(key, default)
GetOr(v, default) == IF v.t = "absent" THEN default ELSE v

extract_fishing_stats(p) ==
    LET m == MemberOf(p)
        x == ResolveXp(m.data)
        s == SeaCreatureKills(m.data)
        e == Contents(m.data, "equipment_contents")
        w == Contents(m.data, "wardrobe_contents")
    IN  IF m.t = "raise" THEN m
        ELSE IF x.t = "raise" THEN x
        ELSE IF x.data.t # "num" THEN Raise(Exc("TypeError", "", ""))
        ELSE IF s.t = "raise" THEN s
        ELSE IF e.t = "raise" THEN e
        ELSE IF w.t = "raise" THEN w
        ELSE Return([fishing_level |-> _xp_to_level(x.data.v),
                     fishing_xp |-> x.data.v,
                     trophy_fish |-> GetOr(m.data.trophy_fish, Dict(EmptyMap)),
                     sea_creature_kills |-> s.data,
                     equipment |-> e.data,
                     wardrobe |-> w.data,
                     profile_id |-> GetOr(p.profile_id, Null),
                     cute_name |-> GetOr(p.cute_name, Null),
                     last_save |-> GetOr(m.data.last_save, Num(0))])

Extract ==
    /\ epc = "start"
    /\ stats' = extract_fishing_stats(profile)
    /\ epc' = "extracted"
    /\ UNCHANGED profile

InitExtract ==
    /\ profile \in Profiles
    /\ stats = None
    /\ epc = "start"

IdleExtract ==
    /\ profile = [members |-> "absent", key |-> <<>>, member |-> EmptyMember,
                  uuid |-> <<"a", "b">>, profile_id |-> Absent, cute_name |-> Str]
    /\ stats = None
    /\ epc = "off"

\* a profile whose member entry is found under the cleaned uuid
ProfileOf(m) ==
    [members |-> "dict", key |-> <<"a", "b">>, member |-> m, uuid |-> <<"a", "-", "b">>,
     profile_id |-> Str, cute_name |-> Str]

NestedXp(n) == Dict(Dict(Num(n)))

\* the profiles extracted repeatedly
RepeatProfiles ==
    {ProfileOf(EmptyMember),
     ProfileOf([EmptyMember EXCEPT !.leveling = NestedXp(1332625)]),
     ProfileOf([EmptyMember EXCEPT !.player_data = NestedXp(100),
                                   !.experience_skill_fishing = Num(999)]),
     ProfileOf([EmptyMember EXCEPT !.leveling = NestedXp(0),
                                   !.experience_skill_fishing = Num(100)]),
     ProfileOf([EmptyMember EXCEPT !.bestiary = Dict(Dict([k \in KillKeys |-> 5])),
                                   !.last_save = Num(1697)]),
     ProfileOf([EmptyMember EXCEPT !.leveling = Null])}

\* an extraction that writes the resolved xp back into the member
ExtractEffect_WriteBack(p) ==
    LET r == extract_fishing_stats(p)
    IN  [profile |-> IF r.t = "return"
                        THEN [p EXCEPT !.member.experience_skill_fishing =
                                           Num(r.data.fishing_xp)]
                        ELSE p,
         result |-> r]

\* what one call leaves behind: the profile object after it, and its result
ExtractEffect(p) == [profile |-> p, result |-> extract_fishing_stats(p)]

\* client.extract_fishing_stats(store[i], uuid) is called once more
RepeatExtract(i) ==
    /\ Len(log) < MaxCalls
    /\ store' = [store EXCEPT ![i] = ExtractEffect(store[i]).profile]
    /\ log' = Append(log, [i |-> i, result |-> ExtractEffect(store[i]).result])
    /\ UNCHANGED original

InitRepeat ==
    /\ store \in [1..2 -> RepeatProfiles]
    /\ original = store
    /\ log = <<>>

IdleRepeat ==
    /\ store = <<>>
    /\ original = <<>>
    /\ log = <<>>

----------------------------------------------------------------------------
(* fishing/calculators.py: calculate_scc and calculate_fishing_speed *)

\* Numbers are fixed-point: contributions and flat bonuses are whole units,
\* multipliers are in thousandths (1.0 = 1000), results are in hundredths.
One == 1000

RECURSIVE SumSeq(_)
SumSeq(q) == IF q = <<>> THEN 0 ELSE Head(q) + SumSeq(Tail(q))

\* round(x, 2) of a value given in thousandths: nearest hundredth, ties to even
Round2(t) ==
    LET q == t \div 10
        r == t % 10
    IN  IF r < 5 THEN q
        ELSE IF r > 5 THEN q + 1
        ELSE IF q % 2 = 0 THEN q ELSE q + 1

Flats == {Absent, Num(0), Num(5)}
Multipliers == {Absent, Num(1000), Num(1125)}
BonusKeys == {"scc_flat", "scc_multiplier", "fs_flat", "fs_multiplier"}

\* set_bonuses: None, or a dict holding any of the four keys
SetBonuses ==
    {Null} \cup {Dict(b) : b \in [scc_flat : Flats, scc_multiplier : Multipliers,
                                  fs_flat : Flats, fs_multiplier : Multipliers]}

\* truth value of set_bonuses: None and {} are false
TruthyBonuses(sb) == sb.t = "dict" /\ \E k \in BonusKeys : sb.f[k].t # "absent"

\* the flat bonus added after the multiplier has been applied
Combine_MultiplyFirst(contribs, sb, flatKey, multKey) ==
    IF TruthyBonuses(sb)
        THEN Round2(SumSeq(contribs) * GetOr(sb.f[multKey], Num(One)).v
                    + GetOr(sb.f[flatKey], Num(0)).v * One)
        ELSE Round2(SumSeq(contribs) * One)

\* the shared body of the two calculators, the keys being those of the stat
Combine(contribs, sb, flatKey, multKey) ==
    IF TruthyBonuses(sb)
        THEN Round2((SumSeq(contribs) + GetOr(sb.f[flatKey], Num(0)).v)
                    * GetOr(sb.f[multKey], Num(One)).v)
        ELSE Round2(SumSeq(contribs) * One)

calculate_scc(contribs, sb) == Combine(contribs, sb, "scc_flat", "scc_multiplier")

calculate_fishing_speed(contribs, sb) == Combine(contribs, sb, "fs_flat", "fs_multiplier")

\* both calculators are run on the same gear
RunGear ==
    /\ cpc = "gear"
    /\ out' = [scc |-> calculate_scc(args.contribs, args.set_bonuses),
               fs |-> calculate_fishing_speed(args.contribs, args.set_bonuses)]
    /\ cpc' = "gear_done"
    /\ UNCHANGED args

InitGear ==
    /\ args \in [contribs : [1..7 -> 0..MaxContrib], set_bonuses : SetBonuses]
    /\ out = None
    /\ cpc = "gear"

IdleCalc ==
    /\ args = None
    /\ out = None
    /\ cpc = "off"

----------------------------------------------------------------------------
(* fishing/stats_calculator.py: FishingStatsCalculator *)

\* a JSON number with a fractional part, in tenths
Float(k) == [t |-> "float", tenths |-> k]

\* isinstance(v, (int, float))
IsNumeric(v) == v.t \in {"num", "float"}

\* int(v)
IntOf(v) == IF v.t = "num" THEN v.v ELSE TruncDiv(v.tenths, 10)

\* the value in tenths
TenthsOf(v) == IF v.t = "num" THEN v.v * 10 ELSE v.tenths

Counts == {Num(n) : n \in 1..MaxCount} \cup {Float(25), Str}

Tiers == {"bronze", "silver", "gold", "diamond"}

\* A trophy key is the sequence of its underscore-separated pieces:
\* golden_fish_diamond, golden_fish_bronze, blobfish_gold, junk, sulphur_skitter
TrophyKeyOrder ==
    << <<"golden", "fish", "diamond">>, <<"golden", "fish", "bronze">>,
       <<"blobfish", "gold">>, <<"junk">>, <<"sulphur", "skitter">> >>

TrophyKeys == {TrophyKeyOrder[i] : i \in 1..Len(TrophyKeyOrder)}

TrophyMaps == UNION {[S -> Counts] : S \in SUBSET TrophyKeys}

\* fish_key.split('_', 1): the name is the first piece, the tier all the rest
Split_First(key) ==
    IF Len(key) = 1 THEN <<key>> ELSE <<SubSeq(key, 1, 1), SubSeq(key, 2, Len(key))>>

\* fish_key.rsplit('_', 1): the name is all but the last piece, the tier the last
RSplit(key) ==
    IF Len(key) = 1 THEN <<key>>
    ELSE <<SubSeq(key, 1, Len(key) - 1), SubSeq(key, Len(key), Len(key))>>

NewTrophyStats ==
    [total_caught |-> 0, by_tier |-> [t \in Tiers |-> 0], by_fish |-> EmptyMap]

\* the body of the loop for one item of trophy_fish
TrophyStep(st, key, count) ==
    LET parts == RSplit(key)
        name == parts[1]
        tier == parts[2][1]
        n == IntOf(count)
        old == IF name \in DOMAIN st.by_fish THEN st.by_fish[name]
               ELSE [total |-> 0, tiers |-> EmptyMap]
    IN  IF ~IsNumeric(count) THEN st
        ELSE IF Len(parts) # 2 THEN st
        ELSE IF Len(parts[2]) # 1 \/ tier \notin Tiers THEN st
        ELSE [total_caught |-> st.total_caught + n,
              by_tier |-> [st.by_tier EXCEPT ![tier] = @ + n],
              by_fish |-> (name :> [total |-> old.total + n,
                                    tiers |-> (tier :> n) @@ old.tiers])
                          @@ st.by_fish]

RECURSIVE SumOver(_, _)
\* the sum of f[x] over x in S
SumOver(S, f) ==
    IF S = {} THEN 0
    ELSE LET x == CHOOSE y \in S : TRUE IN f[x] + SumOver(S \ {x}, f)

RECURSIVE TrophyLoop(_, _, _)
TrophyLoop(st, m, i) ==
    IF i > Len(TrophyKeyOrder) THEN st
    ELSE TrophyLoop(IF TrophyKeyOrder[i] \in DOMAIN m
                       THEN TrophyStep(st, TrophyKeyOrder[i], m[TrophyKeyOrder[i]])
                       ELSE st,
                    m, i + 1)

calculate_trophy_fish_stats(m) == TrophyLoop(NewTrophyStats, m, 1)

RunTrophy ==
    /\ cpc = "trophy"
    /\ out' = calculate_trophy_fish_stats(args)
    /\ cpc' = "trophy_done"
    /\ UNCHANGED args

InitTrophy ==
    /\ args \in TrophyMaps
    /\ out = None
    /\ cpc = "trophy"

\* notable_creatures: creature identifier -> display name
notable_creatures ==
    [water_hydra |-> "Water Hydra", the_sea_emperor |-> "Sea Emperor",
     thunder |-> "Thunder", lord_jawbus |-> "Lord Jawbus",
     great_white_shark |-> "Great White Shark", yeti |-> "Yeti"]

CreatureIds == {"water_hydra", "thunder", "yeti", "sea_walker", "squid"}

KillMaps == UNION {[S -> Counts] : S \in SUBSET CreatureIds}

\* every entry is kept, a non-numeric one as 0
NumericKills_All(m) ==
    [c \in DOMAIN m |-> IF IsNumeric(m[c]) THEN IntOf(m[c]) ELSE 0]

\* numeric_kills: the numeric entries, each converted by int()
NumericKills(m) ==
    [c \in {d \in DOMAIN m : IsNumeric(m[d])} |-> IntOf(m[c])]

DisplayNames(ids) == {notable_creatures[c] : c \in ids}

IdOf(name) == CHOOSE c \in DOMAIN notable_creatures : notable_creatures[c] = name

calculate_sea_creature_stats(m) ==
    LET numeric_kills == NumericKills(m)
        found == DOMAIN notable_creatures \cap DOMAIN numeric_kills
    IN  [total_kills |-> SumOver(DOMAIN numeric_kills, numeric_kills),
         unique_types |-> Cardinality(DOMAIN numeric_kills),
         notable |-> [n \in DisplayNames(found) |-> numeric_kills[IdOf(n)]]]

RunSea ==
    /\ cpc = "sea"
    /\ out' = calculate_sea_creature_stats(args)
    /\ cpc' = "sea_done"
    /\ UNCHANGED args

InitSea ==
    /\ args \in KillMaps
    /\ out = None
    /\ cpc = "sea"

\* A recommendation: the text of the string (without its leading symbol)
\* and the value its {} is formatted with, if it has one
Plain(text) == [text |-> text, arg |-> Absent]

Formatted(text, n) == [text |-> text, arg |-> Num(n)]

\* the texts of the recommendations, in the order of the code
Texts ==
    [focus_levelling |-> "Focus on leveling fishing to unlock better loot pools",
     start_crimson |-> "Start trophy fishing in the Crimson Isle for better loot",
     can_fish_sharks |-> "You can fish for Great White Sharks and Thunder",
     all_creatures |-> "High fishing level! You have access to all sea creatures",
     start_trophy |-> "Start trophy fishing to improve your Fishing Speed and earn rewards!",
     catch_more |-> "Catch more trophy fish to increase your Fishing Speed",
     focus_diamond |-> "Focus on catching diamond trophy fish for better rewards",
     impressive |-> "Impressive! You've caught {} trophy fish!",
     first_diamond |-> "Try to catch your first diamond trophy fish!",
     need_more_diamond |-> "You need more diamond trophy fish (current: {})",
     good_progress |-> "Good progress on diamond trophies! ({}/50)",
     outstanding |-> "Outstanding! You have {} diamond trophy fish"]

\* the first level rule with fishing_level <= 25
LevelRules_Inclusive(fishing_level) ==
    (IF fishing_level <= 25 THEN <<Plain(Texts.focus_levelling)>>
     ELSE IF fishing_level < 30 THEN <<Plain(Texts.start_crimson)>>
     ELSE <<>>)
    \o (IF fishing_level >= 26 THEN <<Plain(Texts.can_fish_sharks)>> ELSE <<>>)
    \o (IF fishing_level >= 40 THEN <<Plain(Texts.all_creatures)>> ELSE <<>>)

\* the level-based recommendations
LevelRules(fishing_level) ==
    (IF fishing_level < 25 THEN <<Plain(Texts.focus_levelling)>>
     ELSE IF fishing_level < 30 THEN <<Plain(Texts.start_crimson)>>
     ELSE <<>>)
    \o (IF fishing_level >= 26 THEN <<Plain(Texts.can_fish_sharks)>> ELSE <<>>)
    \o (IF fishing_level >= 40 THEN <<Plain(Texts.all_creatures)>> ELSE <<>>)

\* the trophy fish recommendation
TrophyRule(total_trophy) ==
    IF total_trophy = 0 THEN <<Plain(Texts.start_trophy)>>
    ELSE IF total_trophy < 100 THEN <<Plain(Texts.catch_more)>>
    ELSE IF total_trophy < 1000 THEN <<Plain(Texts.focus_diamond)>>
    ELSE <<Formatted(Texts.impressive, total_trophy)>>

\* the diamond trophy recommendation
DiamondRule(diamond_count, total_trophy) ==
    IF diamond_count = 0 /\ total_trophy > 0 THEN <<Plain(Texts.first_diamond)>>
    ELSE IF diamond_count < 10 THEN <<Formatted(Texts.need_more_diamond, diamond_count)>>
    ELSE IF diamond_count < 50 THEN <<Formatted(Texts.good_progress, diamond_count)>>
    ELSE IF diamond_count >= 50 THEN <<Formatted(Texts.outstanding, diamond_count)>>
    ELSE <<>>

get_fishing_recommendations(fishing_level, fishing_xp, trophy_stats) ==
    LevelRules(fishing_level)
    \o TrophyRule(trophy_stats.total_caught)
    \o DiamondRule(trophy_stats.by_tier.diamond, trophy_stats.total_caught)

LevelSamples == {0, 24, 25, 26, 29, 30, 39, 40, 50}

TotalSamples == {0, 1, 99, 100, 999, 1000}

DiamondSamples == {0, 1, 9, 10, 49, 50}

RunRecs ==
    /\ cpc = "recs"
    /\ out' = get_fishing_recommendations(args.fishing_level, args.fishing_xp,
                                          args.trophy_stats)
    /\ cpc' = "recs_done"
    /\ UNCHANGED args

InitRecs ==
    /\ args \in [fishing_level : LevelSamples,
                 fishing_xp : {0, 5000},
                 trophy_stats : [total_caught : TotalSamples,
                                 by_tier : [diamond : DiamondSamples]]]
    /\ out = None
    /\ cpc = "recs"

IdleClient ==
    /\ api_key = NoKey
    /\ client = "open"
    /\ callerPc = "off"
    /\ expect = "return"
    /\ op = "none"
    /\ pc = "idle"
    /\ requests = <<>>
    /\ outcomes = <<>>
    /\ getResult = None
    /\ result = None
    /\ waits = <<>>
    /\ tenacity = "current"
    /\ cancelled = FALSE

----------------------------------------------------------------------------
(* Specifications *)

Init == InitClient /\ IdleLevel /\ IdleExtract /\ IdleRepeat /\ IdleCalc

Next ==
    \/ \E o \in Ops, e \in Expectations : Call(o, e) /\ UNCHANGED <<levelVars, extractVars, repeatVars, calcVars>>
    \/ Send /\ UNCHANGED <<levelVars, extractVars, repeatVars, calcVars>>
    \/ \E o \in OutcomesOf(op) : ReceiveGet(o) /\ UNCHANGED <<levelVars, extractVars, repeatVars, calcVars>>
    \/ Sleep /\ UNCHANGED <<levelVars, extractVars, repeatVars, calcVars>>
    \/ \E o \in OutcomesOf(op) : ReceiveMojang(o) /\ UNCHANGED <<levelVars, extractVars, repeatVars, calcVars>>
    \/ Close /\ UNCHANGED <<levelVars, extractVars, repeatVars, calcVars>>
    \/ Propagate /\ UNCHANGED <<levelVars, extractVars, repeatVars, calcVars>>

Spec == Init /\ [][Next]_vars

InitLevelSpec == IdleClient /\ InitLevel /\ IdleExtract /\ IdleRepeat /\ IdleCalc

NextLevel == ResolveLevels /\ UNCHANGED <<clientVars, extractVars, repeatVars, calcVars>>

SpecLevel == InitLevelSpec /\ [][NextLevel]_vars

InitExtractSpec == IdleClient /\ IdleLevel /\ InitExtract /\ IdleRepeat /\ IdleCalc

NextExtract == Extract /\ UNCHANGED <<clientVars, levelVars, repeatVars, calcVars>>

SpecExtract == InitExtractSpec /\ [][NextExtract]_vars

----------------------------------------------------------------------------
(* Properties of the retrying request path *)

SuccessResponse(o) == o.t = "response" /\ o.status = 200 /\ o.body.success = "true"
NonTransientFailure(o) == o.t = "response" /\ ~SuccessResponse(o)
AllTransient(s) == \A i \in 1..Len(s) : IsTransient(s[i])

\* C1: a GET through _get is attempted at most 3 times; when every attempt fails
\* with a timeout or network error the call ends after exactly 3 attempts; when
\* attempt k succeeds, its response is what _get returns and no attempt follows.
C1_RetryUpToThree ==
    op \in RetryingOps =>
        /\ Len(requests) <= 3
        /\ (pc = "done" /\ AllTransient(outcomes)) => Len(requests) = 3
        /\ (AllTransient(outcomes) /\ Len(outcomes) < 3) => pc # "done"
        /\ \A k \in 1..Len(outcomes) :
              SuccessResponse(outcomes[k]) =>
                  /\ k = Len(requests)
                  /\ pc = "done"
                  /\ getResult = Return(outcomes[k].body)

C1_Witness ==
    /\ op \in RetryingOps
    /\ pc = "done"
    /\ Len(outcomes) = 3
    /\ IsTransient(outcomes[1])
    /\ IsTransient(outcomes[2])
    /\ SuccessResponse(outcomes[3])
    /\ getResult = Return(outcomes[3].body)

\* C2: an attempt of _get that ends in a non-transient failure (an error status
\* or a body whose success flag is not true) is the last one: the call ends
\* there with an exception and no request is sent after it, on whichever
\* attempt it happens.
C2_NonTransientNotRetried ==
    op \in RetryingOps =>
        \A k \in 1..Len(outcomes) :
            NonTransientFailure(outcomes[k]) =>
                /\ k = Len(requests)
                /\ pc = "done"
                /\ getResult.t = "raise"
                /\ getResult.exc.type \notin RetriedTypes

C2_Witness ==
    /\ op \in RetryingOps
    /\ pc = "done"
    /\ Len(requests) = 2
    /\ IsTransient(outcomes[1])
    /\ outcomes[2].t = "response"
    /\ outcomes[2].status = 429
    /\ getResult.t = "raise"

LastOutcome == outcomes[Len(outcomes)]

\* C3: the exception of a non-transient failure follows the table, the status
\* being looked at before the body: 404 -> PlayerNotFoundError, 429 ->
\* RateLimitError, >= 500 -> HypixelAPIError, other error status ->
\* HypixelAPIError, good status with a false or missing success flag ->
\* HypixelAPIError carrying the upstream cause; only a body whose success flag
\* is true is ever returned.
C3_Classification ==
    (op \in RetryingOps /\ pc = "done" /\ LastOutcome.t = "response") =>
        LET o == LastOutcome
            e == getResult.exc
        IN  /\ o.status = 404 => (getResult.t = "raise" /\ e.type = "PlayerNotFoundError")
            /\ o.status = 429 => (getResult.t = "raise" /\ e.type = "RateLimitError")
            /\ o.status >= 500 => (getResult.t = "raise" /\ e.type = "HypixelAPIError")
            /\ (o.status >= 400 /\ o.status < 500 /\ o.status \notin {404, 429})
                  => (getResult.t = "raise" /\ e.type = "HypixelAPIError")
            /\ (o.status = 200 /\ o.body.success # "true")
                  => /\ getResult.t = "raise"
                     /\ e.type = "HypixelAPIError"
                     /\ (o.body.cause # "missing" => e.detail = o.body.cause)
            /\ getResult.t = "return" => getResult.data.success = "true"

C3_Witness ==
    /\ op \in RetryingOps
    /\ pc = "done"
    /\ LastOutcome.t = "response"
    /\ LastOutcome.status = 200
    /\ LastOutcome.body.success = "false"
    /\ LastOutcome.body.cause = "Invalid API key"
    /\ getResult = Raise(Exc("HypixelAPIError", "API returned success=false: ",
                             "Invalid API key"))

Taxonomy == {"PlayerNotFoundError", "RateLimitError", "HypixelAPIError"}

\* C4: a call through the retrying path that fails, fails with NotFound,
\* RateLimited or UpstreamError; a transient network error never reaches the
\* caller, not even when the third attempt fails with one.
C4_TransientNeverSurfaced ==
    (op \in RetryingOps /\ pc = "done" /\ result.t = "raise") =>
        result.exc.type \in Taxonomy

C6_TimeoutRetried ==
    /\ \A i \in 1..Len(requests) : requests[i].timeout = TIMEOUT
    /\ (pc = "done" /\ LastOutcome.t = "timeout") => Len(requests) = 3

\* C7: get_skyblock_profiles raises PlayerNotFoundError when the response is
\* successful and profiles is missing, null or empty, returns the data when the
\* list is non-empty, and an unsuccessful body is reported as HypixelAPIError
\* whatever its profiles.
C7_NoProfilesIsNotFound ==
    (op = "get_skyblock_profiles" /\ pc = "done" /\ LastOutcome.t = "response"
        /\ LastOutcome.status = 200) =>
        LET b == LastOutcome.body
        IN  /\ (b.success = "true" /\ b.profiles \in {"missing", "null", "empty"})
                  => result = Raise(Exc("PlayerNotFoundError",
                                        "Player has no Skyblock profiles", ""))
            /\ (b.success = "true" /\ b.profiles = "nonempty") => result = Return(b)
            /\ result.t = "return" => result.data.profiles = "nonempty"
            /\ b.success # "true"
                  => (result.t = "raise" /\ result.exc.type = "HypixelAPIError")

C7_Witness ==
    /\ op = "get_skyblock_profiles"
    /\ pc = "done"
    /\ SuccessResponse(LastOutcome)
    /\ LastOutcome.body.profiles = "empty"
    /\ result.t = "raise"
    /\ result.exc.type = "PlayerNotFoundError"

\* C8: whenever the code owning the client is finished with it, the operation
\* having returned or raised, the connection pool has been closed.
C8_PoolReleased == callerPc = "ended" => client = "closed"

----------------------------------------------------------------------------
(* Properties of the extractor and the level resolver *)

\* C9: a record returned by extract_fishing_stats has fishing_level equal to
\* the resolver applied to its fishing_xp, and fishing_level in 0..50.
C9_LevelMatchesXp ==
    (epc = "extracted" /\ stats.t = "return") =>
        /\ stats.data.fishing_level = _xp_to_level(stats.data.fishing_xp)
        /\ stats.data.fishing_level \in 0..50

\* C10: on non-negative xp the resolver is monotonically non-decreasing, stays
\* within 0..50, gives 0 at xp = 0 and 50 from the top threshold on.
C10_MonotoneBounded ==
    (lpc = "resolved" /\ xpA >= 0 /\ xpB >= 0) =>
        /\ xpA <= xpB => levelA <= levelB
        /\ levelA \in 0..50
        /\ xpA = 0 => levelA = 0
        /\ xpA >= TopThreshold => levelA = 50

C10_Witness ==
    /\ lpc = "resolved"
    /\ xpA = 27624
    /\ xpB = 27625
    /\ levelA = 5
    /\ levelB = 5


\* C11: the resolver clamps negative input: every xp < 0, xp <= -5000
\* included, resolves to level 0 and never to a negative level.
C11_NegativeClamped ==
    (lpc = "resolved" /\ xpA < 0) => (levelA = 0 /\ levelA >= 0)


\* the value a nested experience path holds, Absent when the path is not there
PathLeaf(c) ==
    IF c.t = "dict" /\ c.f.t = "dict" THEN c.f.f ELSE Absent

\* a member whose experience paths are mappings and numbers only
WellFormedXp(m) ==
    /\ m.leveling.t \in {"absent", "dict"}
    /\ m.player_data.t \in {"absent", "dict"}
    /\ m.leveling.t = "dict" => m.leveling.f.t \in {"absent", "dict"}
    /\ m.player_data.t = "dict" => m.player_data.f.t \in {"absent", "dict"}
    /\ \A l \in {PathLeaf(m.leveling), PathLeaf(m.player_data), m.experience_skill_fishing} :
          l.t \in {"absent", "num"}

\* the member the extraction looks at is the one stored in the profile
MemberFound == profile.members = "dict" /\ profile.key = Clean(profile.uuid)

\* the first present value in the order player_data, leveling, legacy key
FirstPresentXp(m) ==
    IF PathLeaf(m.player_data).t = "num" THEN PathLeaf(m.player_data).v
    ELSE IF PathLeaf(m.leveling).t = "num" THEN PathLeaf(m.leveling).v
    ELSE IF m.experience_skill_fishing.t = "num" THEN m.experience_skill_fishing.v
    ELSE 0

\* C12: fishing_xp is the value at the first present path in the order
\* player_data.experience, leveling.experience, experience_skill_fishing
\* (default 0); stated here for members whose present values are all non-zero.
C12_PathPriority ==
    (/\ epc = "extracted"
     /\ MemberFound
     /\ WellFormedXp(profile.member)
     /\ \A l \in {PathLeaf(profile.member.leveling), PathLeaf(profile.member.player_data),
                  profile.member.experience_skill_fishing} :
           l.t = "num" => l.v # 0)
    => (stats.t = "return"
        /\ stats.data.fishing_xp = FirstPresentXp(profile.member))

\* C13: extract_fishing_stats never raises, whatever is missing, null or of
\* the wrong type; an empty member object gives xp 0, level 0, empty trophy
\* and sea-creature mappings and last_save 0.
C13_NeverRaises ==
    epc = "extracted" =>
        /\ stats.t = "return"
        /\ (MemberOf(profile) = Return(EmptyMember)) =>
              /\ stats.data.fishing_xp = 0
              /\ stats.data.fishing_level = 0
              /\ stats.data.trophy_fish = Dict(EmptyMap)
              /\ stats.data.sea_creature_kills = EmptyMap
              /\ stats.data.last_save = Num(0)

\* C20: a path holding 0 counts as present: with 0 at one nested experience
\* path (the other one absent) and a non-zero legacy value, fishing_xp is 0
\* and fishing_level is 0.
C20_ZeroIsPresent ==
    (/\ epc = "extracted"
     /\ MemberFound
     /\ WellFormedXp(profile.member)
     /\ {PathLeaf(profile.member.leveling), PathLeaf(profile.member.player_data)}
            = {Num(0), Absent}
     /\ profile.member.experience_skill_fishing.t = "num"
     /\ profile.member.experience_skill_fishing.v > 0)
    => (stats.t = "return"
        /\ stats.data.fishing_xp = 0
        /\ stats.data.fishing_level = 0)


InitRepeatSpec == IdleClient /\ IdleLevel /\ IdleExtract /\ InitRepeat /\ IdleCalc

NextRepeat ==
    \E i \in 1..2 : RepeatExtract(i) /\ UNCHANGED <<clientVars, levelVars, extractVars, calcVars>>

SpecRepeat == InitRepeatSpec /\ [][NextRepeat]_vars

InitGearSpec == IdleClient /\ IdleLevel /\ IdleExtract /\ IdleRepeat /\ InitGear

NextGear == RunGear /\ UNCHANGED <<clientVars, levelVars, extractVars, repeatVars>>

SpecGear == InitGearSpec /\ [][NextGear]_vars

\* the flat bonus and the multiplier of a stat, 0 and 1.0 when not given
FlatOf(sb, key) == IF sb.t = "dict" /\ sb.f[key].t = "num" THEN sb.f[key].v ELSE 0
MultOf(sb, key) == IF sb.t = "dict" /\ sb.f[key].t = "num" THEN sb.f[key].v ELSE One

\* C15: both calculators return round((sum of the seven contributions + flat)
\* * multiplier, 2) with flat = 0 and multiplier = 1.0 when the stat's key is
\* absent; None and {} behave as {flat: 0, multiplier: 1.0}; all-zero
\* contributions without bonuses give 0.
C15_CombineFormula ==
    cpc = "gear_done" =>
        LET total == SumSeq(args.contribs)
            sb == args.set_bonuses
        IN  /\ out.scc = Round2((total + FlatOf(sb, "scc_flat")) * MultOf(sb, "scc_multiplier"))
            /\ out.fs = Round2((total + FlatOf(sb, "fs_flat")) * MultOf(sb, "fs_multiplier"))
            /\ ~TruthyBonuses(sb) => (out.scc = total * 100 /\ out.fs = total * 100)
            /\ (total = 0 /\ ~TruthyBonuses(sb)) => (out.scc = 0 /\ out.fs = 0)

C15_Witness ==
    /\ cpc = "gear_done"
    /\ SumSeq(args.contribs) = 2
    /\ args.set_bonuses.t = "dict"
    /\ args.set_bonuses.f.scc_flat = Num(5)
    /\ args.set_bonuses.f.scc_multiplier = Num(1125)
    /\ args.set_bonuses.f.fs_flat = Absent
    /\ args.set_bonuses.f.fs_multiplier = Absent
    /\ out.scc = 788
    /\ out.fs = 200


InitTrophySpec == IdleClient /\ IdleLevel /\ IdleExtract /\ IdleRepeat /\ InitTrophy

NextTrophy == RunTrophy /\ UNCHANGED <<clientVars, levelVars, extractVars, repeatVars>>

SpecTrophy == InitTrophySpec /\ [][NextTrophy]_vars

\* the entries a trophy breakdown counts: numeric value, <name>_<tier> key
CountedKeys(m) ==
    {k \in DOMAIN m : IsNumeric(m[k]) /\ Len(k) >= 2 /\ k[Len(k)] \in Tiers}

NameOf(k) == SubSeq(k, 1, Len(k) - 1)

\* the sums by_tier, by_fish and total_caught agree with one another
TrophyConsistent(st) ==
    /\ st.total_caught = SumOver(Tiers, st.by_tier)
    /\ st.total_caught = SumOver(DOMAIN st.by_fish, [f \in DOMAIN st.by_fish |-> st.by_fish[f].total])
    /\ \A f \in DOMAIN st.by_fish :
          st.by_fish[f].total = SumOver(DOMAIN st.by_fish[f].tiers, st.by_fish[f].tiers)

\* every counted entry, and no other, is in by_fish under its name and tier
TrophyParsed(m, st) ==
    /\ DOMAIN st.by_fish = {NameOf(k) : k \in CountedKeys(m)}
    /\ \A k \in CountedKeys(m) :
          /\ k[Len(k)] \in DOMAIN st.by_fish[NameOf(k)].tiers
          /\ st.by_fish[NameOf(k)].tiers[k[Len(k)]] = IntOf(m[k])
    /\ \A f \in DOMAIN st.by_fish :
          \A t \in DOMAIN st.by_fish[f].tiers : Append(f, t) \in CountedKeys(m)

\* C16 as stated: keys are split on the last underscore, only numeric values
\* with a known tier are counted, and total_caught equals the sum of the
\* counted values, the sum of by_tier, the sum of the by_fish totals, each
\* by_fish total being the sum of its tiers.
C16_TotalIsSumOfValues ==
    cpc = "trophy_done" =>
        /\ TrophyParsed(args, out)
        /\ TrophyConsistent(out)
        /\ out.total_caught * 10
              = SumOver(CountedKeys(args), [k \in CountedKeys(args) |-> TenthsOf(args[k])])

\* C16 amended: the same, total_caught being the sum of the counted values
\* each truncated to an integer.
C16_TotalIsSumOfTruncated ==
    cpc = "trophy_done" =>
        /\ TrophyParsed(args, out)
        /\ TrophyConsistent(out)
        /\ out.total_caught
              = SumOver(CountedKeys(args), [k \in CountedKeys(args) |-> IntOf(args[k])])

C16_Witness ==
    /\ cpc = "trophy_done"
    /\ DOMAIN args = {<<"golden", "fish", "diamond">>, <<"golden", "fish", "bronze">>,
                      <<"junk">>, <<"sulphur", "skitter">>}
    /\ args[<<"golden", "fish", "diamond">>] = Num(2)
    /\ args[<<"golden", "fish", "bronze">>] = Float(25)
    /\ args[<<"junk">>] = Str
    /\ args[<<"sulphur", "skitter">>] = Num(1)
    /\ out.total_caught = 4
    /\ out.by_tier = [t \in Tiers |-> IF t \in {"diamond", "bronze"} THEN 2 ELSE 0]
    /\ DOMAIN out.by_fish = {<<"golden", "fish">>}
    /\ out.by_fish[<<"golden", "fish">>].total = 4


InitSeaSpec == IdleClient /\ IdleLevel /\ IdleExtract /\ IdleRepeat /\ InitSea

NextSea == RunSea /\ UNCHANGED <<clientVars, levelVars, extractVars, repeatVars>>

SpecSea == InitSeaSpec /\ [][NextSea]_vars

NumericIds(m) == {c \in DOMAIN m : IsNumeric(m[c])}

\* unique_types counts the numeric keys; notable holds exactly the curated
\* creatures that have a numeric value, under their display names
SeaShape(m, st) ==
    /\ st.unique_types = Cardinality(NumericIds(m))
    /\ \A c \in DOMAIN notable_creatures :
          notable_creatures[c] \in DOMAIN st.notable <=> c \in NumericIds(m)
    /\ DOMAIN st.notable \subseteq DisplayNames(DOMAIN notable_creatures)

\* C17 as stated: total_kills is the sum of the numeric values, unique_types
\* the number of keys with a numeric value, and notable holds a curated
\* creature, with its kill count, iff its identifier has a numeric value.
C17_KillsAreSumOfValues ==
    cpc = "sea_done" =>
        /\ SeaShape(args, out)
        /\ out.total_kills * 10
              = SumOver(NumericIds(args), [c \in NumericIds(args) |-> TenthsOf(args[c])])
        /\ \A c \in DOMAIN notable_creatures \cap NumericIds(args) :
              out.notable[notable_creatures[c]] * 10 = TenthsOf(args[c])

\* C17 amended: the same, every kill count being truncated to an integer
\* before it is summed or reported.
C17_KillsAreSumOfTruncated ==
    cpc = "sea_done" =>
        /\ SeaShape(args, out)
        /\ out.total_kills
              = SumOver(NumericIds(args), [c \in NumericIds(args) |-> IntOf(args[c])])
        /\ \A c \in DOMAIN notable_creatures \cap NumericIds(args) :
              out.notable[notable_creatures[c]] = IntOf(args[c])

C17_Witness ==
    /\ cpc = "sea_done"
    /\ DOMAIN args = {"water_hydra", "thunder", "yeti", "sea_walker"}
    /\ args["water_hydra"] = Num(2)
    /\ args["thunder"] = Str
    /\ args["yeti"] = Float(25)
    /\ args["sea_walker"] = Num(1)
    /\ out.total_kills = 5
    /\ out.unique_types = 3
    /\ DOMAIN out.notable = {"Water Hydra", "Yeti"}
    /\ out.notable["Water Hydra"] = 2
    /\ out.notable["Yeti"] = 2


InitRecsSpec == IdleClient /\ IdleLevel /\ IdleExtract /\ IdleRepeat /\ InitRecs

NextRecs == RunRecs /\ UNCHANGED <<clientVars, levelVars, extractVars, repeatVars>>

SpecRecs == InitRecsSpec /\ [][NextRecs]_vars

\* the rules in the order of the table
RuleTable ==
    <<Texts.focus_levelling, Texts.start_crimson, Texts.can_fish_sharks,
      Texts.all_creatures, Texts.start_trophy, Texts.catch_more,
      Texts.focus_diamond, Texts.impressive, Texts.first_diamond,
      Texts.need_more_diamond, Texts.good_progress, Texts.outstanding>>

Rank(text) == CHOOSE i \in 1..Len(RuleTable) : RuleTable[i] = text

Fires(text) == \E i \in 1..Len(out) : out[i].text = text

FiresWith(text, n) == \E i \in 1..Len(out) : out[i] = Formatted(text, n)

InTableOrder ==
    /\ \A i \in 1..Len(out) : \E k \in 1..Len(RuleTable) : RuleTable[k] = out[i].text
    /\ \A i, j \in 1..Len(out) : i < j => Rank(out[i].text) < Rank(out[j].text)

\* the level rules and the trophy-total rule
LevelAndTotalLadder ==
    LET level == args.fishing_level
        total == args.trophy_stats.total_caught
    IN  /\ Fires(Texts.focus_levelling) <=> level < 25
        /\ Fires(Texts.start_crimson) <=> (25 <= level /\ level < 30)
        /\ Fires(Texts.can_fish_sharks) <=> level >= 26
        /\ Fires(Texts.all_creatures) <=> level >= 40
        /\ Fires(Texts.start_trophy) <=> total = 0
        /\ Fires(Texts.catch_more) <=> (1 <= total /\ total <= 99)
        /\ Fires(Texts.focus_diamond) <=> (100 <= total /\ total <= 999)
        /\ Fires(Texts.impressive) <=> total >= 1000
        /\ Fires(Texts.impressive) => FiresWith(Texts.impressive, total)

DiamondArgs ==
    LET diamond == args.trophy_stats.by_tier.diamond
    IN  /\ Fires(Texts.need_more_diamond) => FiresWith(Texts.need_more_diamond, diamond)
        /\ Fires(Texts.good_progress) => FiresWith(Texts.good_progress, diamond)
        /\ Fires(Texts.outstanding) => FiresWith(Texts.outstanding, diamond)

\* C18 as stated: the level rules fire for level < 25, 25 <= level < 30,
\* level >= 26 and level >= 40; the trophy rule is chosen by the total in
\* {0, 1..99, 100..999, >= 1000}; the diamond rule is chosen by the diamond
\* count alone in {0, 1..9, 10..49, >= 50}; strings appear in table order.
C18_DiamondRuleByCountAlone ==
    cpc = "recs_done" =>
        LET diamond == args.trophy_stats.by_tier.diamond
        IN  /\ InTableOrder
            /\ LevelAndTotalLadder
            /\ DiamondArgs
            /\ Fires(Texts.first_diamond) <=> diamond = 0
            /\ Fires(Texts.need_more_diamond) <=> (1 <= diamond /\ diamond <= 9)
            /\ Fires(Texts.good_progress) <=> (10 <= diamond /\ diamond <= 49)
            /\ Fires(Texts.outstanding) <=> diamond >= 50

\* C18 amended: the same, except that a diamond count of 0 selects the
\* first-diamond rule only when the trophy total is positive; with a total
\* of 0 it selects the need-more rule, as the counts 1..9 do.
C18_DiamondRuleUsesTotal ==
    cpc = "recs_done" =>
        LET diamond == args.trophy_stats.by_tier.diamond
            total == args.trophy_stats.total_caught
        IN  /\ InTableOrder
            /\ LevelAndTotalLadder
            /\ DiamondArgs
            /\ Fires(Texts.first_diamond) <=> (diamond = 0 /\ total > 0)
            /\ Fires(Texts.need_more_diamond) <=> (diamond <= 9 /\ ~(diamond = 0 /\ total > 0))
            /\ Fires(Texts.good_progress) <=> (10 <= diamond /\ diamond <= 49)
            /\ Fires(Texts.outstanding) <=> diamond >= 50

C18_Witness ==
    /\ cpc = "recs_done"
    /\ args.fishing_level = 26
    /\ args.trophy_stats.total_caught = 0
    /\ args.trophy_stats.by_tier.diamond = 0
    /\ out = <<Plain(Texts.start_crimson), Plain(Texts.can_fish_sharks), Plain(Texts.start_trophy),
               Formatted(Texts.need_more_diamond, 0)>>


C21_OneLevelPerThreshold ==
    (lpc = "resolved" /\ xpA >= 0) =>
        /\ xpA = 572625 => levelA = 20
        /\ xpA = 1332625 => levelA = 25
        /\ xpB = xpA + 1 => levelB \in {levelA, levelA + 1}


NextCancel ==
    \/ Next
    \/ CancelAttempt /\ UNCHANGED <<levelVars, extractVars, repeatVars, calcVars>>
    \/ CancelSleep /\ UNCHANGED <<levelVars, extractVars, repeatVars, calcVars>>

SpecCancel == Init /\ [][NextCancel]_vars

\* C22: once the owning code has cancelled a fetch, during an attempt in
\* flight or during the backoff wait, no further attempt is started and the
\* operation has ended with the cancellation.
C22_NoAttemptAfterCancel ==
    [][cancelled' =>
          /\ requests' = requests
          /\ pc' = "done"
          /\ result' = CancelledError]_vars

C22_Witness ==
    /\ cancelled
    /\ op \in RetryingOps
    /\ pc = "done"
    /\ Len(requests) = 2
    /\ Len(waits) = 1
    /\ outcomes[2] = [t |-> "cancelled"]
    /\ result = CancelledError

====
